---- MODULE Spec2Model ----
(***************************************************************************)
(* Model of vscode-env-manager.py: a command-line tool that records and    *)
(* reconciles the editor's extension list (backup / comp / install /       *)
(* uninstall) and copies, diffs and restores the editor's settings file    *)
(* (backup / diff / restore).                                              *)
(*                                                                         *)
(* A file is a record [exists, data].  A settings file's data is a         *)
(* sequence of characters drawn from Chars, where "CR" and "LF" stand for  *)
(* the carriage-return and line-feed characters.  The extension list       *)
(* file's data is a sequence of lines, each a sequence of characters       *)
(* without its line terminator.                                            *)
(***************************************************************************)
EXTENDS Naturals, Sequences, FiniteSets

VARIABLES
    platform,         \* sys.platform: "linux", "win32" or "darwin"
    toolOK,           \* the editor's `code` command is on the execution path
    appdataSpace,     \* win32: the value of APPDATA contains a space
    tildeDir,         \* the directory ./~/.config/Code/User exists under the cwd
    liveExt,          \* extensions installed in the editor
    argv,             \* sys.argv[1:] of the running invocation
    pc,               \* position of the running invocation
    IS_WINDOWS,       \* the module global: "None", "False" or "True"
    exitCode,         \* exit status of the invocation (meaningful at pc = "exit")
    out,              \* lines printed to standard output by the invocation
    ran,              \* procedure chosen by the dispatch ("none" before it)
    touched,          \* the invocation opened a file or started a subprocess
    extFile,          \* vscode-extensions.txt
    bakFile,          \* vscode-settings.jsonc
    liveFile,         \* the platform's settings.json (expanded path)
    tildeFile,        \* ./~/.config/Code/User/settings.json (unexpanded path)
    snaps,            \* vscode-settings-<t>.jsonc, by epoch second t
    snapOpen,         \* the snapshot file handle is open for writing
    snapTs,           \* epoch second used in the snapshot's name
    extensions_file,  \* local of comp/install/uninstall
    extensions_code,  \* local of comp/install/uninstall
    todo,             \* elements a for-loop over a set has yet to visit
    issued,           \* install/uninstall commands run, each with its outcome
    now,              \* current epoch second
    runs,             \* invocations started so far
    start,            \* files as they were when the invocation started
    prev              \* command, exit status and files of the previous invocation

env   == <<platform, toolOK, appdataSpace, tildeDir>>
proc  == <<argv, pc, IS_WINDOWS, exitCode, out, ran, touched>>
files == <<extFile, bakFile, liveFile, tildeFile, snaps, snapOpen, snapTs>>
loc   == <<extensions_file, extensions_code, todo, issued>>
hist  == <<now, runs, start, prev>>
vars  == <<env, liveExt, proc, files, loc, hist>>

----------------------------------------------------------------------------
(* Bounds *)

MaxLen == 2        \* characters in a settings file
MaxLines == 2      \* lines in the extension list file
MaxLineLen == 2    \* characters in a line of the extension list file
MaxTime == 1       \* last epoch second
MaxRuns == 2       \* invocations in a behaviour

----------------------------------------------------------------------------
(* Values *)

Chars == {"a", "CR", "LF"}
LineChars == {"a", " "}
LiveIds == {<<"a">>, <<"a", "a">>}
Platforms == {"linux", "win32", "darwin"}
CommandNames == {"backup", "diff", "comp", "restore", "install", "uninstall"}
ArgWords == CommandNames \cup {"Backup", "help"}

SeqsUpTo(S, n) == UNION {[1..k -> S] : k \in 0..n}

NoFile == [exists |-> FALSE, data |-> <<>>]
File(d) == [exists |-> TRUE, data |-> d]
FilesOver(S) == {NoFile} \cup {File(d) : d \in S}

Texts == SeqsUpTo(Chars, MaxLen)
Lines == SeqsUpTo(LineChars, MaxLineLen)
ExtTexts == SeqsUpTo(Lines, MaxLines)

Entry(k, v) == [k |-> k, v |-> v]

----------------------------------------------------------------------------
(* Library functions the program calls *)

\* str.strip(): drop leading and trailing whitespace
RECURSIVE LStrip(_)
LStrip(s) == IF s # <<>> /\ Head(s) = " " THEN LStrip(Tail(s)) ELSE s

RECURSIVE RStrip(_)
RStrip(s) ==
    IF s # <<>> /\ s[Len(s)] = " " THEN RStrip(SubSeq(s, 1, Len(s) - 1)) ELSE s

Strip(s) == RStrip(LStrip(s))

\* [x.strip() for x in file.readlines()]
RECURSIVE StripAll(_)
StripAll(ls) == IF ls = <<>> THEN <<>> ELSE <<Strip(Head(ls))>> \o StripAll(Tail(ls))

\* set(list)
SetOf(ls) == {ls[i] : i \in DOMAIN ls}

\* Reading in text mode (newline=None): "\r\n" and "\r" are read as "\n"
RECURSIVE ReadText(_)
ReadText(s) ==
    IF s = <<>> THEN <<>>
    ELSE IF Head(s) = "CR"
         THEN <<"LF">> \o ReadText(IF Len(s) > 1 /\ s[2] = "LF"
                                   THEN Tail(Tail(s)) ELSE Tail(s))
         ELSE <<Head(s)>> \o ReadText(Tail(s))

\* Writing in text mode with newline="\n": characters are written untranslated
WriteText(s) == s

\* readlines() on translated text: lines keep their "\n"
RECURSIVE SplitLines(_, _)
SplitLines(s, cur) ==
    IF s = <<>> THEN (IF cur = <<>> THEN <<>> ELSE <<cur>>)
    ELSE IF Head(s) = "LF"
         THEN <<Append(cur, "LF")>> \o SplitLines(Tail(s), <<>>)
         ELSE SplitLines(Tail(s), Append(cur, Head(s)))

ReadLines(data) == SplitLines(ReadText(data), <<>>)

RECURSIVE CommonPrefix(_, _)
CommonPrefix(a, b) ==
    IF a # <<>> /\ b # <<>> /\ Head(a) = Head(b)
    THEN 1 + CommonPrefix(Tail(a), Tail(b)) ELSE 0

Reverse(s) == [i \in 1..Len(s) |-> s[Len(s) + 1 - i]]

Tagged(tag, ls) == [i \in 1..Len(ls) |-> Entry("diff", <<tag>> \o ls[i])]

\* difflib.unified_diff(a, b, "before.json", "after.json") for files short
\* enough to fall in one hunk: nothing when a = b, otherwise the two file
\* headers, the hunk header and the hunk's lines.
UnifiedDiff(a, b) ==
    IF a = b THEN <<>>
    ELSE LET p  == CommonPrefix(a, b)
             ra == SubSeq(a, p + 1, Len(a))
             rb == SubSeq(b, p + 1, Len(b))
             s  == CommonPrefix(Reverse(ra), Reverse(rb))
         IN  <<Entry("diff", <<"---">>), Entry("diff", <<"+++">>),
               Entry("diff", <<"@@">>)>>
             \o Tagged(" ", SubSeq(a, 1, p))
             \o Tagged("-", SubSeq(ra, 1, Len(ra) - s))
             \o Tagged("+", SubSeq(rb, 1, Len(rb) - s))
             \o Tagged(" ", SubSeq(ra, Len(ra) - s + 1, Len(ra)))

\* Shortlex order on lines, to fix the order in which the tool lists extensions
RECURSIVE LexLess(_, _)
LexLess(a, b) ==
    IF a = <<>> \/ b = <<>> THEN FALSE
    ELSE IF Head(a) = Head(b) THEN LexLess(Tail(a), Tail(b))
         ELSE Head(a) = " "

Before(a, b) == Len(a) < Len(b) \/ (Len(a) = Len(b) /\ LexLess(a, b))

\* `code --list-extensions`: one identifier per line
RECURSIVE ListExtensions(_)
ListExtensions(S) ==
    IF S = {} THEN <<>>
    ELSE LET m == CHOOSE x \in S : \A y \in S \ {x} : Before(x, y)
         IN  <<m>> \o ListExtensions(S \ {m})

\* subprocess with shell=IS_WINDOWS: a shell is used only when the flag is True
UsesShell == IS_WINDOWS = "True"

----------------------------------------------------------------------------
(* Process exit *)

Snapshot == [ext |-> extFile, bak |-> bakFile, live |-> liveFile,
             tilde |-> tildeFile, snaps |-> snaps, liveExt |-> liveExt]

\* normal return from the procedure
Return == /\ pc' = "exit"
          /\ exitCode' = 0

\* an exception that nothing catches: traceback, exit status 1
Raise == /\ pc' = "exit"
         /\ exitCode' = 1

----------------------------------------------------------------------------
(* __main__: platform flag and command dispatch *)

FUNCTIONS == CommandNames

\* Variant of Dispatch: the argument count is not checked
DispatchFirstArg(args) ==
    IF Len(args) >= 1 /\ args[1] \in FUNCTIONS THEN args[1] ELSE "man"

\* len(sys.argv) == 2 and sys.argv[1] in FUNCTIONS.keys()
Dispatch(args) ==
    IF Len(args) = 1 /\ args[1] \in FUNCTIONS THEN args[1] ELSE "man"

PlatformFlag(p) ==
    IF p = "linux" THEN "False" ELSE IF p = "win32" THEN "True" ELSE "None"

Main ==
    /\ pc = "start"
    /\ IS_WINDOWS' = PlatformFlag(platform)
    /\ ran' = Dispatch(argv)
    /\ IF ran' = "man"
       THEN \* man(): two print calls
            /\ out' = <<Entry("usage", <<>>)>>
            /\ Return
       ELSE /\ pc' = ran'
            /\ UNCHANGED <<out, exitCode>>
    /\ UNCHANGED <<env, liveExt, argv, touched, files, loc, hist>>

----------------------------------------------------------------------------
(* backup() *)

\* Variant of ExtWritten: the file is opened for appending
ExtAppended(old, printed) == old \o printed

\* open(..., "w") followed by the tool writing to the handle: the file holds
\* what the tool printed and nothing of its earlier content
ExtWritten(old, printed) == printed

\* Lines 35-36: the recorded list
BackupExtensions ==
    /\ pc = "backup"
    /\ touched' = TRUE
    /\ IF toolOK
       THEN /\ extFile' = File(ExtWritten(extFile.data, ListExtensions(liveExt)))
            /\ pc' = "backup_settings"
            /\ UNCHANGED exitCode
       ELSE \* the file was opened for writing, so it is left empty
            /\ extFile' = File(ExtWritten(extFile.data, <<>>))
            /\ IF UsesShell
               THEN \* the shell reports the missing command; run() does not
                    \* look at the return code
                    /\ pc' = "backup_settings"
                    /\ UNCHANGED exitCode
               ELSE \* FileNotFoundError from subprocess.run
                    Raise
    /\ UNCHANGED <<env, liveExt, argv, IS_WINDOWS, out, ran, bakFile, liveFile,
                   tildeFile, snaps, snapOpen, snapTs, loc, hist>>

\* The shell copy command of lines 40 and 43 succeeds
CopySucceeds ==
    \/ platform = "linux" /\ liveFile.exists
    \/ IS_WINDOWS = "True" /\ liveFile.exists /\ ~appdataSpace

\* Lines 39-43: the settings copy; the copy command's exit status is not read
BackupSettings ==
    /\ pc = "backup_settings"
    /\ IF platform = "linux" \/ IS_WINDOWS = "True"
       THEN /\ touched' = TRUE
            /\ bakFile' = IF CopySucceeds THEN File(liveFile.data) ELSE bakFile
       ELSE UNCHANGED <<touched, bakFile>>
    /\ Return
    /\ UNCHANGED <<env, liveExt, argv, IS_WINDOWS, out, ran, extFile, liveFile,
                   tildeFile, snaps, snapOpen, snapTs, loc, hist>>

----------------------------------------------------------------------------
(* diff() *)

\* Lines 94-105
Diff ==
    /\ pc = "diff"
    /\ touched' = TRUE
    /\ IF ~bakFile.exists
       THEN \* FileNotFoundError at line 94
            Raise /\ UNCHANGED out
       ELSE IF ~(platform = "linux" \/ IS_WINDOWS = "True")
       THEN \* p was never assigned: UnboundLocalError at line 101
            Raise /\ UNCHANGED out
       ELSE IF ~liveFile.exists
       THEN \* FileNotFoundError at line 101
            Raise /\ UNCHANGED out
       ELSE /\ out' = out \o UnifiedDiff(ReadLines(bakFile.data),
                                         ReadLines(liveFile.data))
            /\ Return
    /\ UNCHANGED <<env, liveExt, argv, IS_WINDOWS, ran, files, loc, hist>>

----------------------------------------------------------------------------
(* restore() *)

\* Lines 110-118: resolve the path, open the live file for reading and the
\* timestamped snapshot for writing
RestoreSnapshotOpen ==
    /\ pc = "restore"
    /\ IF ~(platform = "linux" \/ IS_WINDOWS = "True")
       THEN \* p was never assigned: UnboundLocalError at line 116
            Raise /\ UNCHANGED <<touched, snaps, snapOpen, snapTs>>
       ELSE /\ touched' = TRUE
            /\ IF ~liveFile.exists
               THEN \* FileNotFoundError at line 116
                    Raise /\ UNCHANGED <<snaps, snapOpen, snapTs>>
               ELSE /\ snapTs' = now
                    /\ snaps' = [snaps EXCEPT ![now] = File(<<>>)]
                    /\ snapOpen' = TRUE
                    /\ pc' = "restore_copy"
                    /\ UNCHANGED exitCode
    /\ UNCHANGED <<env, liveExt, argv, IS_WINDOWS, out, ran, extFile, bakFile,
                   liveFile, tildeFile, loc, hist>>

\* Variant of RestoreSnapshotWrite: the handle is closed with nothing written
RestoreSnapshotSkipped ==
    /\ pc = "restore_copy"
    /\ snapOpen' = FALSE
    /\ pc' = "restore_open"
    /\ UNCHANGED <<env, liveExt, argv, IS_WINDOWS, exitCode, out, ran, touched,
                   extFile, bakFile, liveFile, tildeFile, snaps, snapTs, loc, hist>>

\* Line 119 and the end of the with-block: copy and close
RestoreSnapshotWrite ==
    /\ pc = "restore_copy"
    /\ snaps' = [snaps EXCEPT ![snapTs] = File(WriteText(ReadText(liveFile.data)))]
    /\ snapOpen' = FALSE
    /\ pc' = "restore_open"
    /\ UNCHANGED <<env, liveExt, argv, IS_WINDOWS, exitCode, out, ran, touched,
                   extFile, bakFile, liveFile, tildeFile, snapTs, loc, hist>>

\* The file that open(p, "w") of line 123 names: p is used without
\* expanduser(), so on linux "~" is a directory name relative to the cwd
RestoreTarget == IF platform = "linux" THEN "tilde" ELSE "live"

\* Lines 122-123: open the fixed backup for reading, the target for writing
RestoreOpen ==
    /\ pc = "restore_open"
    /\ IF ~bakFile.exists
       THEN \* FileNotFoundError at line 122
            Raise /\ UNCHANGED <<liveFile, tildeFile>>
       ELSE IF RestoreTarget = "tilde"
       THEN IF tildeDir
            THEN /\ tildeFile' = File(<<>>)
                 /\ pc' = "restore_write"
                 /\ UNCHANGED <<liveFile, exitCode>>
            ELSE \* FileNotFoundError at line 123
                 Raise /\ UNCHANGED <<liveFile, tildeFile>>
       ELSE /\ liveFile' = File(<<>>)
            /\ pc' = "restore_write"
            /\ UNCHANGED <<tildeFile, exitCode>>
    /\ UNCHANGED <<env, liveExt, argv, IS_WINDOWS, out, ran, touched, extFile,
                   bakFile, snaps, snapOpen, snapTs, loc, hist>>

\* Line 124 and the end of the with-block
RestoreWrite ==
    /\ pc = "restore_write"
    /\ IF RestoreTarget = "tilde"
       THEN /\ tildeFile' = File(WriteText(ReadText(bakFile.data)))
            /\ UNCHANGED liveFile
       ELSE /\ liveFile' = File(WriteText(ReadText(bakFile.data)))
            /\ UNCHANGED tildeFile
    /\ Return
    /\ UNCHANGED <<env, liveExt, argv, IS_WINDOWS, out, ran, touched, extFile,
                   bakFile, snaps, snapOpen, snapTs, loc, hist>>

----------------------------------------------------------------------------
(* comp(), install(), uninstall() *)

\* Variant of Difference: the operands are exchanged
DifferenceSwapped(a, b) == SetOf(b) \ SetOf(a)

\* set(a).difference(b)
Difference(a, b) == SetOf(a) \ SetOf(b)

\* What the three procedures share: open the recorded list, start the tool
\* with its output on a pipe, read both (lines 47-54, 72-76, 83-87).
\* `next` is the position after the reads.
ReadLists(next) ==
    /\ touched' = TRUE
    /\ IF ~extFile.exists
       THEN \* FileNotFoundError from open()
            Raise /\ UNCHANGED <<extensions_file, extensions_code>>
       ELSE IF ~toolOK /\ ~UsesShell
       THEN \* FileNotFoundError from subprocess.Popen
            Raise /\ UNCHANGED <<extensions_file, extensions_code>>
       ELSE /\ extensions_file' = StripAll(extFile.data)
            \* through a shell a missing tool leaves the pipe empty
            /\ extensions_code' =
                   IF toolOK THEN StripAll(ListExtensions(liveExt)) ELSE <<>>
            /\ pc' = next
            /\ UNCHANGED exitCode

\* Lines 47-54
CompRead ==
    /\ pc = "comp"
    /\ ReadLists("comp_code")
    /\ UNCHANGED <<env, liveExt, argv, IS_WINDOWS, out, ran, files, todo, issued,
                   hist>>

\* Lines 57-59: the section header, printed only for a non-empty difference
CompCode ==
    /\ pc = "comp_code"
    /\ IF Difference(extensions_code, extensions_file) # {}
       THEN /\ out' = out \o <<Entry("code", <<>>), Entry("rule", <<>>)>>
            /\ todo' = Difference(extensions_code, extensions_file)
            /\ pc' = "comp_code_loop"
       ELSE /\ pc' = "comp_file"
            /\ UNCHANGED <<out, todo>>
    /\ UNCHANGED <<env, liveExt, argv, IS_WINDOWS, exitCode, ran, touched, files,
                   extensions_file, extensions_code, issued, hist>>

\* Lines 60-61: one iteration; a set is visited in no particular order
CompCodePrint ==
    /\ pc = "comp_code_loop"
    /\ \E line \in todo :
          /\ out' = Append(out, Entry("line", line))
          /\ todo' = todo \ {line}
    /\ pc' = IF todo' = {} THEN "comp_file" ELSE "comp_code_loop"
    /\ UNCHANGED <<env, liveExt, argv, IS_WINDOWS, exitCode, ran, touched, files,
                   extensions_file, extensions_code, issued, hist>>

\* Lines 64-66
CompFile ==
    /\ pc = "comp_file"
    /\ IF Difference(extensions_file, extensions_code) # {}
       THEN /\ out' = out \o <<Entry("file", <<>>), Entry("rule", <<>>)>>
            /\ todo' = Difference(extensions_file, extensions_code)
            /\ pc' = "comp_file_loop"
            /\ UNCHANGED exitCode
       ELSE /\ Return
            /\ UNCHANGED <<out, todo>>
    /\ UNCHANGED <<env, liveExt, argv, IS_WINDOWS, ran, touched, files,
                   extensions_file, extensions_code, issued, hist>>

\* Lines 67-68
CompFilePrint ==
    /\ pc = "comp_file_loop"
    /\ \E line \in todo :
          /\ out' = Append(out, Entry("line", line))
          /\ todo' = todo \ {line}
    /\ IF todo' = {} THEN Return ELSE UNCHANGED <<pc, exitCode>>
    /\ UNCHANGED <<env, liveExt, argv, IS_WINDOWS, ran, touched, files,
                   extensions_file, extensions_code, issued, hist>>

\* Variant of InstallTargets: the difference is taken the other way round
InstallTargetsReversed(recorded, live) == SetOf(live) \ SetOf(recorded)

\* Variant of InstallTargets: the live set is not subtracted
InstallTargetsAll(recorded, live) == SetOf(recorded)

\* The identifiers the loop of line 78 visits
InstallTargets(recorded, live) == Difference(recorded, live)

\* The identifiers the loop of line 89 visits
UninstallTargets(recorded, live) == Difference(live, recorded)

\* subprocess.run(["code", op, id]) and whether it exited zero
Command(op, id, ok) == [op |-> op, id |-> id, ok |-> ok]

\* The tool can carry out an install of this identifier
Installable(id) == toolOK /\ id # <<>>

\* Lines 72-76 and the evaluation of the loop's set
InstallRead ==
    /\ pc = "install"
    /\ ReadLists("install_loop")
    /\ todo' = IF pc' = "install_loop"
               THEN InstallTargets(extensions_file', extensions_code') ELSE todo
    /\ UNCHANGED <<env, liveExt, argv, IS_WINDOWS, out, ran, files, issued,
                   hist>>

\* Line 79: one iteration; run() ignores the command's exit status.
\* With the set exhausted the procedure returns.
InstallStep ==
    /\ pc = "install_loop"
    /\ IF todo = {}
       THEN /\ Return
            /\ UNCHANGED <<todo, issued, liveExt>>
       ELSE /\ \E line \in todo :
                  /\ todo' = todo \ {line}
                  /\ \E ok \in {b \in BOOLEAN : b => Installable(line)} :
                        /\ issued' = Append(issued, Command("install", line, ok))
                        /\ liveExt' = IF ok THEN liveExt \cup {line} ELSE liveExt
            /\ UNCHANGED <<pc, exitCode>>
    /\ UNCHANGED <<env, argv, IS_WINDOWS, out, ran, touched, files,
                   extensions_file, extensions_code, hist>>

\* Lines 83-87 and the evaluation of the loop's set
UninstallRead ==
    /\ pc = "uninstall"
    /\ ReadLists("uninstall_loop")
    /\ todo' = IF pc' = "uninstall_loop"
               THEN UninstallTargets(extensions_file', extensions_code') ELSE todo
    /\ UNCHANGED <<env, liveExt, argv, IS_WINDOWS, out, ran, files, issued,
                   hist>>

\* Line 90: one iteration
UninstallStep ==
    /\ pc = "uninstall_loop"
    /\ IF todo = {}
       THEN /\ Return
            /\ UNCHANGED <<todo, issued, liveExt>>
       ELSE /\ \E line \in todo :
                  /\ todo' = todo \ {line}
                  /\ \E ok \in {b \in BOOLEAN : b => toolOK} :
                        /\ issued' = Append(issued, Command("uninstall", line, ok))
                        /\ liveExt' = IF ok THEN liveExt \ {line} ELSE liveExt
            /\ UNCHANGED <<pc, exitCode>>
    /\ UNCHANGED <<env, argv, IS_WINDOWS, out, ran, touched, files,
                   extensions_file, extensions_code, hist>>

----------------------------------------------------------------------------
(* Invocations *)

\* The process has exited; the user starts the program again with any of
\* `words` as its arguments, at the same or a later second.
Invoke(words) ==
    /\ pc = "exit"
    /\ runs < MaxRuns
    /\ runs' = runs + 1
    /\ argv' \in words
    /\ now' \in now..MaxTime
    /\ prev' = [cmd |-> ran, exit |-> exitCode, files |-> Snapshot]
    /\ start' = Snapshot
    /\ pc' = "start"
    /\ IS_WINDOWS' = "None"
    /\ exitCode' = 0
    /\ out' = <<>>
    /\ ran' = "none"
    /\ touched' = FALSE
    /\ snapOpen' = FALSE
    /\ extensions_file' = <<>>
    /\ extensions_code' = <<>>
    /\ todo' = {}
    /\ issued' = <<>>
    /\ UNCHANGED <<env, liveExt, extFile, bakFile, liveFile, tildeFile, snaps,
                   snapTs>>

\* State of a freshly started process (line 14 and the interpreter's start)
InitProcess(words) ==
    /\ argv \in words
    /\ pc = "start"
    /\ IS_WINDOWS = "None"
    /\ exitCode = 0
    /\ out = <<>>
    /\ ran = "none"
    /\ touched = FALSE
    /\ snapOpen = FALSE
    /\ snapTs = 0
    /\ extensions_file = <<>>
    /\ extensions_code = <<>>
    /\ todo = {}
    /\ issued = <<>>
    /\ runs = 1
    /\ start = Snapshot
    /\ prev = [cmd |-> "none", exit |-> 0, files |-> Snapshot]

\* The platform and the tool
InitEnv ==
    /\ platform \in Platforms
    /\ toolOK \in BOOLEAN
    /\ tildeFile = NoFile

\* APPDATA is read on win32 only (lines 42, 99, 113)
AnyAppdata == appdataSpace \in {b \in BOOLEAN : b => platform = "win32"}

\* The unexpanded path is opened on linux only (lines 111, 123)
AnyTildeDir == tildeDir \in {b \in BOOLEAN : b => platform = "linux"}

NoSnaps == [t \in 0..MaxTime |-> NoFile]

----------------------------------------------------------------------------
(* One invocation of a settings command: backup, diff or restore.  A       *)
(* snapshot of an earlier restore may exist, taken at second 0.            *)

SyncWords == {<<"backup">>, <<"diff">>, <<"restore">>}

InitSync ==
    /\ InitEnv
    /\ AnyAppdata
    /\ AnyTildeDir
    /\ liveExt = {<<"a">>}
    /\ extFile = NoFile
    /\ bakFile \in FilesOver(Texts)
    /\ liveFile \in FilesOver(Texts)
    /\ now \in 0..MaxTime
    /\ snaps \in {NoSnaps, [NoSnaps EXCEPT ![0] = File(<<"a">>)]}
    /\ InitProcess(SyncWords)

NextSync ==
    \/ Main
    \/ BackupExtensions
    \/ BackupSettings
    \/ Diff
    \/ RestoreSnapshotOpen
    \/ RestoreSnapshotWrite
    \/ RestoreOpen
    \/ RestoreWrite

SpecSync == InitSync /\ [][NextSync]_vars

----------------------------------------------------------------------------
(* Successive invocations of backup and diff *)

CaptureWords == {<<"backup">>, <<"diff">>}

InitCapture ==
    /\ InitEnv
    /\ AnyAppdata
    /\ tildeDir = FALSE
    /\ liveExt = {<<"a">>}
    /\ extFile \in {NoFile, File(<<<<"a", "a">>>>)}
    /\ bakFile \in FilesOver(Texts)
    /\ liveFile \in FilesOver(Texts)
    /\ now = 0
    /\ snaps = NoSnaps
    /\ InitProcess(CaptureWords)

InvokeCapture == Invoke(CaptureWords)

NextCapture ==
    \/ Main
    \/ BackupExtensions
    \/ BackupSettings
    \/ Diff
    \/ InvokeCapture

SpecCapture == InitCapture /\ [][NextCapture]_vars

----------------------------------------------------------------------------
(* One invocation of an extension command: comp, install or uninstall *)

ExtWords == {<<"comp">>, <<"install">>, <<"uninstall">>}

InitExt ==
    /\ InitEnv
    /\ appdataSpace = FALSE
    /\ tildeDir = FALSE
    /\ liveExt \in SUBSET LiveIds
    /\ extFile \in FilesOver(ExtTexts)
    /\ bakFile = NoFile
    /\ liveFile = NoFile
    /\ now = 0
    /\ snaps = NoSnaps
    /\ InitProcess(ExtWords)

NextExt ==
    \/ Main
    \/ CompRead
    \/ CompCode
    \/ CompCodePrint
    \/ CompFile
    \/ CompFilePrint
    \/ InstallRead
    \/ InstallStep
    \/ UninstallRead
    \/ UninstallStep

SpecExt == InitExt /\ [][NextExt]_vars

----------------------------------------------------------------------------
(* One invocation of the program with any command line *)

AllWords == SeqsUpTo(ArgWords, 2)

Init ==
    /\ InitEnv
    /\ AnyAppdata
    /\ AnyTildeDir
    /\ liveExt \in {{}, {<<"a">>}}
    /\ extFile \in {NoFile, File(<<<<"a", "a">>>>)}
    /\ bakFile \in {NoFile, File(<<"a">>)}
    /\ liveFile \in {NoFile, File(<<"CR", "LF">>)}
    /\ now = 0
    /\ snaps = NoSnaps
    /\ InitProcess(AllWords)

Next ==
    \/ Main
    \/ BackupExtensions
    \/ BackupSettings
    \/ CompRead
    \/ CompCode
    \/ CompCodePrint
    \/ CompFile
    \/ CompFilePrint
    \/ InstallRead
    \/ InstallStep
    \/ UninstallRead
    \/ UninstallStep
    \/ Diff
    \/ RestoreSnapshotOpen
    \/ RestoreSnapshotWrite
    \/ RestoreOpen
    \/ RestoreWrite

Spec == Init /\ [][Next]_vars

----------------------------------------------------------------------------
(* Properties *)

Exited == pc = "exit"

\* Recorded list, as a set of identifiers, when the invocation started
Recorded == SetOf(StripAll(start.ext.data))

\* What a list-extensions query returns for a live set: nothing when the
\* tool cannot be started
Queried(S) == IF toolOK THEN S ELSE {}

Ids(from, to) == {out[i].v : i \in from..to}
Kinds(from, to) == {out[i].k : i \in from..to}

\* out[from..] is the section `header` for the set S, n entries long
Section(header, S, from, n) ==
    IF S = {} THEN n = 0
    ELSE /\ n = Cardinality(S) + 2
         /\ from + n - 1 <= Len(out)
         /\ out[from].k = header
         /\ out[from + 1].k = "rule"
         /\ Kinds(from + 2, from + n - 1) = {"line"}
         /\ Ids(from + 2, from + n - 1) = S

\* C1 as stated: during and after restore(), whenever the live settings file
\* differs from what it was when restore() started, the timestamped snapshot
\* exists, is closed and holds exactly the live file's starting content.
C1_SnapshotExactBeforeOverwrite ==
    (ran = "restore" /\ liveFile # start.live)
        => /\ snaps[snapTs].exists
           /\ ~snapOpen
           /\ snaps[snapTs].data = start.live.data

\* C1 amended: during and after restore(), whenever the live settings file
\* differs from what it was when restore() started, the timestamped snapshot
\* exists, is closed and holds the live file's starting content as text mode
\* reads it, that is with every CR LF pair and every lone CR turned into LF.
C1_SnapshotBeforeOverwrite ==
    (ran = "restore" /\ liveFile # start.live)
        => /\ snaps[snapTs].exists
           /\ ~snapOpen
           /\ snapTs = now
           /\ snaps[snapTs].data = ReadText(start.live.data)

\* C1 witness: restore() has truncated a live file that held a CR
C1_Witness ==
    /\ ran = "restore"
    /\ pc = "restore_write"
    /\ liveFile # start.live
    /\ start.live.data = <<"a", "CR">>
    /\ snaps[snapTs].data = <<"a", "LF">>

\* C2: on linux and on win32, once restore() has run on live content A and
\* backup content B, the live settings file holds B and the snapshot named
\* with the current second holds A.
C2_RestoreSwapsContent ==
    (Exited /\ ran = "restore" /\ platform \in {"linux", "win32"}
       /\ start.live.exists /\ start.bak.exists)
        => /\ liveFile = start.bak
           /\ snaps[now] = start.live

\* C3: comp() prints the section of the identifiers that are live and not
\* recorded, then the section of those recorded and not live, each
\* identifier once, and prints no header for an empty section.
C3_CompSections ==
    (Exited /\ ran = "comp" /\ exitCode = 0)
        => LET B == Queried(start.liveExt)
               A == Recorded
           IN  \E n \in 0..Len(out) :
                  /\ Section("code", B \ A, 1, n)
                  /\ Section("file", A \ B, n + 1, Len(out) - n)

\* C3 witness: both sections were printed
C3_Witness ==
    /\ Exited /\ ran = "comp"
    /\ Queried(start.liveExt) \ Recorded # {}
    /\ Recorded \ Queried(start.liveExt) # {}
    /\ Len(out) >= 6

AllSucceeded == \A i \in DOMAIN issued : issued[i].ok

\* C4: when every command it ran succeeded, install() leaves a live set that
\* a fresh query reports as a superset of the recorded list, and uninstall()
\* one that a fresh query reports as a subset of it.
C4_Convergence ==
    (Exited /\ exitCode = 0 /\ AllSucceeded)
        => /\ ran = "install" => Recorded \subseteq Queried(liveExt)
           /\ ran = "uninstall" => Queried(liveExt) \subseteq Recorded

\* C4 witness: install() added both recorded identifiers to a live set that
\* had neither
C4_Witness ==
    /\ Exited /\ exitCode = 0 /\ AllSucceeded
    /\ ran = "install"
    /\ Len(issued) = 2
    /\ start.liveExt = {}
    /\ liveExt = Recorded

\* C5: diff() run right after a successful backup() prints nothing, and
\* diff() prints nothing whenever the two files read as the same lines.
C5_DiffEmpty ==
    (Exited /\ ran = "diff")
        => /\ (prev.cmd = "backup" /\ prev.exit = 0) => out = <<>>
           /\ (start.bak.exists /\ start.live.exists
                 /\ ReadLines(start.bak.data) = ReadLines(start.live.data))
                  => out = <<>>

\* C6: a backup() run right after a backup() leaves vscode-extensions.txt
\* and vscode-settings.jsonc as the first run left them.
C6_CaptureIdempotent ==
    (Exited /\ ran = "backup" /\ prev.cmd = "backup")
        => /\ extFile = prev.files.ext
           /\ bakFile = prev.files.bak

\* C6 witness: two backups in a row, the first of which replaced both files
C6_Witness ==
    /\ Exited /\ ran = "backup" /\ prev.cmd = "backup"
    /\ exitCode = 0
    /\ extFile.data = <<<<"a">>>>
    /\ bakFile.data = <<"a", "CR">>

\* Procedure each position belongs to
ProcOf(label) ==
    CASE label \in {"backup", "backup_settings"} -> "backup"
      [] label \in {"comp", "comp_code", "comp_code_loop", "comp_file",
                    "comp_file_loop"} -> "comp"
      [] label \in {"install", "install_loop"} -> "install"
      [] label \in {"uninstall", "uninstall_loop"} -> "uninstall"
      [] label = "diff" -> "diff"
      [] label \in {"restore", "restore_copy", "restore_open",
                    "restore_write"} -> "restore"
      [] OTHER -> "none"

\* C7: a procedure runs exactly when the command line is one argument that
\* names it, and it is the only one to run; any other command line prints
\* the usage, exits 0, starts no subprocess and touches no file.
C7_Dispatch ==
    LET named == Len(argv) = 1 /\ argv[1] \in CommandNames
    IN  /\ ~(pc \in {"start", "exit"}) => (named /\ ProcOf(pc) = argv[1])
        /\ (Exited /\ named) => ran = argv[1]
        /\ (Exited /\ ~named)
              => /\ ran = "man"
                 /\ out = <<Entry("usage", <<>>)>>
                 /\ exitCode = 0
                 /\ ~touched
                 /\ Snapshot = start

\* C7 witness: a valid command name followed by another argument
C7_Witness ==
    /\ Exited
    /\ argv = <<"backup", "help">>
    /\ ran = "man"

\* C8: on linux and on win32, a backup() during which the tool could not be
\* started ends with a non-zero exit status.
C8_BackupFailsVisibly ==
    (Exited /\ ran = "backup" /\ ~toolOK /\ platform \in {"linux", "win32"})
        => exitCode # 0

\* C9: install() runs only install commands, one for each identifier that
\* is recorded and was not in the live set queried at the start and for no
\* other identifier, and a failed command does not keep the rest from running.
C9_InstallCommands ==
    ran = "install"
        => LET want == Recorded \ Queried(start.liveExt)
           IN  /\ \A i \in DOMAIN issued :
                     issued[i].op = "install" /\ issued[i].id \in want
               /\ \A i, j \in DOMAIN issued : issued[i].id = issued[j].id => i = j
               /\ (Exited /\ exitCode = 0)
                     => {issued[i].id : i \in DOMAIN issued} = want

\* C9 witness: the first of two installs failed and the second still ran
C9_Witness ==
    /\ Exited /\ ran = "install"
    /\ Len(issued) = 2
    /\ ~issued[1].ok
    /\ issued[2].ok

\* C10: on a platform that is neither linux nor win32, backup(), diff() and
\* restore() each end with an error and leave vscode-settings.jsonc, the
\* snapshots and the live settings file as they were.
C10_UnsupportedPlatformFails ==
    (Exited /\ ran \in {"backup", "diff", "restore"}
       /\ ~(platform \in {"linux", "win32"}))
        => /\ exitCode # 0
           /\ bakFile = start.bak
           /\ snaps = start.snaps
           /\ liveFile = start.live
           /\ tildeFile = start.tilde

====
